---------------------------- MODULE Spec2Model ----------------------------
(***************************************************************************)
(* Pain point detection pipeline of Redditlisten.                          *)
(*                                                                         *)
(*   SpecTracker   the two deduplication trackers in isolation:            *)
(*                 SeenPostsTracker (src/rss_listener.py) and PostCache    *)
(*                 (src/listener.py), driven by arbitrary call sequences.  *)
(*   SpecAnalyzer  PainAnalyzer.analyze_post (src/pain_analyzer.py) as a   *)
(*                 pure function of a tokenised text, a keyword list and   *)
(*                 the compound scores VADER assigns.                      *)
(*   Spec          RSSListener (src/rss_listener.py): the polling loop,    *)
(*                 with the stop signal arriving at any step.              *)
(*   SpecWorkers   several threads calling RSSListener._process_entry on   *)
(*                 one SeenPostsTracker.                                   *)
(***************************************************************************)
EXTENDS Integers, Sequences, FiniteSets, TLC

VARIABLES
    which,      \* SpecTracker: the tracker object under test
    seen,       \* SeenPostsTracker._seen
    max_size,   \* SeenPostsTracker.max_size
    insOrder,   \* history: the members of _seen in insertion order
    cache,      \* PostCache._cache, an OrderedDict: sequence of [id, t]
    cache_max,  \* PostCache._max_size
    cooldown,   \* PostCache._cooldown
    now,        \* time.time()
    lastOp,     \* history: the last tracker call and what it did
    tokens,     \* SpecAnalyzer: sent_tokenize(clean_text), the text's pieces
    keywords,   \* the caller's keyword list
    negative_threshold, \* PainAnalyzer.negative_threshold, in hundredths
    vader,      \* compound score (hundredths) VADER gives each scored text
    apc,        \* "input" before the analysis, "done" after it
    result,     \* the AnalysisResult returned
    cw,         \* the last get_context_window call and what it returned
    running,    \* Spec: RSSListener._running
    pc,         \* where the thread running start() stands
    niche,      \* poll_all_niches: position in NICHES (1-based)
    sub,        \* poll_niche: position in the niche's subreddits (1-based)
    attempt,    \* _fetch_feed: the loop variable `attempt`, 0 outside it
    feedLen,    \* len(feed.entries) of the feed being processed
    pos,        \* poll_niche: position in feed.entries (1-based)
    pain_posts, \* poll_niche: pain_posts, the ids of the posts in it
    met,        \* the ids of the entries poll_niche has processed so far: a
                \* post is in one subreddit, and once in its feed
    postIdx,    \* poll_all_niches: position in posts (1-based)
    sleepLeft,  \* start: sleep_end - time.time(), in whole seconds
    saved,      \* the "posts" of the seen-posts file
    cycleSaved, \* history: poll_all_niches reached save() in this cycle
    delivered,  \* history: the ids on_pain_point was called with, this niche
    cbRaised,   \* history: an on_pain_point call of this cycle raised while
                \* posts of its niche and further niches were left
    lastEntry,  \* history: the last _process_entry call and what it did
    lastFetch,  \* history: the last _fetch_feed call and how it went
    exc,        \* history: the callback whose exception start() caught last
    given,      \* history: for each id, how often it was given to a callback
                \* since it last entered the seen set (2: twice or more)
    load,       \* history: what _load found in the seen-posts file, "none"
                \* once start() runs
    wpc,        \* SpecWorkers: where each thread stands in _process_entry
    wid,        \* SpecWorkers: the post_id of the entry each thread handles
    recent_days,    \* SpecTrend: get_trending_keywords' recent_days
    baseline_days,  \* get_trending_keywords' baseline_days
    min_recent_count, \* get_trending_keywords' min_recent_count
    recent_count,   \* COUNT of the keyword's posts in the recent window
    baseline_count, \* COUNT of its posts in the baseline window
    tpc,            \* "input" before the call, "done" after it
    trending,       \* the list get_trending_keywords returned
    pain_score,     \* SpecSeverity: PainPoint.pain_score, in hundredths
    tier            \* what PainPoint.severity returned, "" before the call

trackerVars == <<which, seen, max_size, insOrder, cache, cache_max, cooldown,
                 now, lastOp>>

analyzerVars == <<tokens, keywords, negative_threshold, vader, apc, result,
                  cw>>

listenerVars == <<running, pc, niche, sub, attempt, feedLen, pos,
                  pain_posts, met, postIdx, sleepLeft, saved, cycleSaved,
                  delivered, cbRaised, lastEntry, lastFetch, exc,
                  given, load>>

workerVars == <<wpc, wid>>

trendVars == <<recent_days, baseline_days, min_recent_count, recent_count,
               baseline_count, tpc, trending>>

severityVars == <<pain_score, tier>>

vars == <<trackerVars, analyzerVars, listenerVars, workerVars, trendVars,
          severityVars>>

(***************************************************************************)
(* Bounds                                                                  *)
(***************************************************************************)
NumIds == 4
MaxMaxSize == 3
MaxTime == 2
MaxCooldown == 1
MaxTokens == 3
MaxKeywords == 2
MaxRadius == 2
NumNiches == 2
NumSubs == 2
NumWorkers == 2
NumItems == 2
MaxFeedLen == 1
MaxSleepSteps == 1

Ids == 1..NumIds

(***************************************************************************)
(* Helpers                                                                 *)
(***************************************************************************)
Max(a, b) == IF a >= b THEN a ELSE b
Min(a, b) == IF a <= b THEN a ELSE b

Range(s) == {s[i] : i \in 1..Len(s)}

\* s without the elements of the set R
RECURSIVE Without(_, _)
Without(s, R) ==
    IF s = <<>> THEN <<>>
    ELSE IF Head(s) \in R THEN Without(Tail(s), R)
         ELSE <<Head(s)>> \o Without(Tail(s), R)

(***************************************************************************)
(* SeenPostsTracker                                                        *)
(***************************************************************************)
\* is_seen answering "not seen" always
IsSeenNever(S, post_id) == FALSE

is_seen(S, post_id) == post_id \in S

count(S) == Cardinality(S)

\* mark_seen without the trim
MarkSeenNoTrim(S, post_id, max) == {S \cup {post_id}}

\* The sets mark_seen can leave in _seen.  list(self._seen) enumerates a hash
\* set of strings, whose order is unspecified (it depends on the per-process
\* string hash seed), so seen_list[excess:] drops any `excess` members.
MarkSeenOutcomes(S, post_id, max) ==
    LET added  == S \cup {post_id}
        excess == Cardinality(added) - max
    IN  IF Cardinality(added) > max
        THEN {added \ E : E \in {X \in SUBSET added : Cardinality(X) = excess}}
        ELSE {added}

NoOp == [op |-> "none", id |-> 0, res |-> FALSE, evicted |-> {},
         oldest |-> {}, flip |-> FALSE]

MarkSeen(post_id) ==
    /\ which = "seen"
    /\ \E S2 \in MarkSeenOutcomes(seen, post_id, max_size) :
         LET ord     == IF post_id \in seen THEN insOrder
                        ELSE Append(insOrder, post_id)
             evicted == (seen \cup {post_id}) \ S2
             excess  == Max(0, Len(ord) - max_size)
         IN  /\ seen' = S2
             /\ insOrder' = Without(ord, evicted)
             /\ lastOp' = [op |-> "mark", id |-> post_id,
                           res |-> is_seen(S2, post_id),
                           evicted |-> evicted,
                           oldest |-> {ord[i] : i \in 1..excess},
                           flip |-> ~lastOp.flip]
    /\ UNCHANGED <<which, max_size, cache, cache_max, cooldown, now>>
    /\ UNCHANGED <<analyzerVars, listenerVars, workerVars, trendVars,
                 severityVars>>

IsSeen(post_id) ==
    /\ which = "seen"
    /\ lastOp' = [op |-> "is_seen", id |-> post_id,
                  res |-> is_seen(seen, post_id), evicted |-> {},
                  oldest |-> {}, flip |-> ~lastOp.flip]
    /\ UNCHANGED <<which, seen, max_size, insOrder, cache, cache_max,
                   cooldown, now>>
    /\ UNCHANGED <<analyzerVars, listenerVars, workerVars, trendVars,
                 severityVars>>

(***************************************************************************)
(* PostCache                                                               *)
(***************************************************************************)
CacheIds(c) == {c[i].id : i \in 1..Len(c)}

CacheIndex(c, post_id) == CHOOSE i \in 1..Len(c) : c[i].id = post_id

size(c) == Len(c)

RECURSIVE CacheRemove(_, _)
CacheRemove(c, post_id) ==
    IF c = <<>> THEN <<>>
    ELSE IF Head(c).id = post_id THEN CacheRemove(Tail(c), post_id)
         ELSE <<Head(c)>> \o CacheRemove(Tail(c), post_id)

\* PostCache.is_seen without the cooldown test
CacheIsSeenNoExpiry(c, post_id, t, cd) == <<post_id \in CacheIds(c), c>>

\* PostCache.is_seen: <<returned value, cache afterwards>>
cache_is_seen(c, post_id, t, cd) ==
    IF post_id \notin CacheIds(c) THEN <<FALSE, c>>
    ELSE IF t - c[CacheIndex(c, post_id)].t > cd
         THEN <<FALSE, CacheRemove(c, post_id)>>
         ELSE <<TRUE, c>>

\* while len(self._cache) > self._max_size: self._cache.popitem(last=False)
RECURSIVE EvictOldest(_, _)
EvictOldest(c, max) ==
    IF Len(c) > max THEN EvictOldest(Tail(c), max) ELSE c

\* PostCache.mark_seen without the eviction loop
CacheMarkSeenNoEvict(c, post_id, t, max) ==
    Append(CacheRemove(c, post_id), [id |-> post_id, t |-> t])

\* PostCache.mark_seen without move_to_end: an id already in the cache keeps
\* its place and gets the new time
CacheMarkSeenInPlace(c, post_id, t, max) ==
    EvictOldest(IF post_id \in CacheIds(c)
                THEN [i \in 1..Len(c) |->
                        IF c[i].id = post_id THEN [id |-> post_id, t |-> t]
                        ELSE c[i]]
                ELSE Append(c, [id |-> post_id, t |-> t]),
                max)

\* PostCache.mark_seen: move_to_end, store the time, evict from the front
cache_mark_seen(c, post_id, t, max) ==
    EvictOldest(Append(CacheRemove(c, post_id), [id |-> post_id, t |-> t]), max)

CacheMarkSeen(post_id) ==
    /\ which = "cache"
    /\ LET c2 == cache_mark_seen(cache, post_id, now, cache_max)
       IN  /\ cache' = c2
           /\ lastOp' = [op |-> "mark", id |-> post_id,
                         res |-> cache_is_seen(c2, post_id, now, cooldown)[1],
                         evicted |-> (CacheIds(cache) \cup {post_id}) \ CacheIds(c2),
                         oldest |-> {}, flip |-> ~lastOp.flip]
    /\ UNCHANGED <<which, seen, max_size, insOrder, cache_max, cooldown, now>>
    /\ UNCHANGED <<analyzerVars, listenerVars, workerVars, trendVars,
                 severityVars>>

CacheIsSeen(post_id) ==
    /\ which = "cache"
    /\ LET r == cache_is_seen(cache, post_id, now, cooldown)
       IN  /\ cache' = r[2]
           /\ lastOp' = [op |-> "is_seen", id |-> post_id, res |-> r[1],
                         evicted |-> CacheIds(cache) \ CacheIds(r[2]),
                         oldest |-> {}, flip |-> ~lastOp.flip]
    /\ UNCHANGED <<which, seen, max_size, insOrder, cache_max, cooldown, now>>
    /\ UNCHANGED <<analyzerVars, listenerVars, workerVars, trendVars,
                 severityVars>>

\* time passes between two calls
Tick ==
    /\ which = "cache"
    /\ now < MaxTime
    /\ now' = now + 1
    /\ UNCHANGED <<which, seen, max_size, insOrder, cache, cache_max, cooldown,
                   lastOp>>
    /\ UNCHANGED <<analyzerVars, listenerVars, workerVars, trendVars,
                 severityVars>>

(***************************************************************************)
(* PainAnalyzer.  Text is a string (a sequence of characters); scores are  *)
(* VADER compound scores in hundredths (-0.05 is -5).                      *)
(***************************************************************************)
NEGATIVE_THRESHOLD == -5

\* the bounds of PainPoint.severity, in hundredths
SEVERE_MAX == -50
MODERATE_MAX == -25
MIN_SNIPPET_LENGTH == 20
MAX_SNIPPET_LENGTH == 500
MIN_SENTENCE_LENGTH == 10
CONTEXT_HASH_PREFIX == 100
DEFAULT_WINDOW_SIZE == 1

Letters == {"a", "c", "e", "g", "h", "i", "k", "l", "n", "o", "p", "r", "s",
            "t", "w", "x", "S"}

\* s[p], 1-based
CharAt(s, p) == SubSeq(s, p, p)

\* str.lower() / re.IGNORECASE on the alphabet used
Lower(c) == IF c = "S" THEN "s" ELSE c

\* \w
IsWordChar(c) == c \in Letters

RECURSIVE Rep(_, _)
Rep(c, n) == IF n = 0 THEN "" ELSE c \o Rep(c, n - 1)

RECURSIVE Join(_, _)
Join(parts, sep) ==
    IF parts = <<>> THEN ""
    ELSE IF Len(parts) = 1 THEN parts[1]
         ELSE parts[1] \o sep \o Join(Tail(parts), sep)

\* Python's s[:n]
Prefix(s, n) == SubSeq(s, 1, Min(n, Len(s)))

RECURSIVE Strip(_)
Strip(s) ==
    IF s = "" THEN s
    ELSE IF CharAt(s, 1) = " " THEN Strip(SubSeq(s, 2, Len(s)))
    ELSE IF CharAt(s, Len(s)) = " " THEN Strip(SubSeq(s, 1, Len(s) - 1))
    ELSE s

S_SHIP == "Shipping is late."
S_WORSHIP == "we worship cats."
\* longer than the hashed prefix; three of them exceed MAX_SNIPPET_LENGTH
S_LONG == "ship " \o Rep("x", 170) \o "."
\* a fragment the tokenizer can produce
S_FRAG == "Oh well."

SentencePool == {S_SHIP, S_WORSHIP, S_LONG, S_FRAG}

K_SHIP == "ship"
K_LATE == "late"

KeywordPool == {K_SHIP, K_LATE}

\* the compound scores drawn: two negative ones, and the threshold itself
CompoundValues == {SEVERE_MAX, MODERATE_MAX, NEGATIVE_THRESHOLD}

Thresholds == {NEGATIVE_THRESHOLD}

\* PainPoint.severity with both boundaries exclusive
SeverityExclusive(score) ==
    IF score < SEVERE_MAX THEN "SEVERE"
    ELSE IF score < MODERATE_MAX THEN "MODERATE"
    ELSE "MILD"

\* PainPoint.severity
severity(score) ==
    IF score <= SEVERE_MAX THEN "SEVERE"
    ELSE IF score <= MODERATE_MAX THEN "MODERATE"
    ELSE "MILD"

\* hash(context[:100]): equal prefixes hash equally; a collision between two
\* different prefixes of one post is not modelled
StrHash(s) == <<"hash", s>>

\* split_sentences: the tokenizer's pieces, stripped, those longer than 10
RECURSIVE split_sentences(_)
split_sentences(toks) ==
    IF toks = <<>> THEN <<>>
    ELSE IF Len(Strip(Head(toks))) > MIN_SENTENCE_LENGTH
         THEN <<Strip(Head(toks))>> \o split_sentences(Tail(toks))
         ELSE split_sentences(Tail(toks))

\* get_context_window returning index + window_size + 1 as the end, unclamped
ContextWindowUnclamped(sentences, target_index, window_size) ==
    LET start   == Max(0, target_index - window_size)
        end     == Min(Len(sentences), target_index + window_size + 1)
        context == Join(SubSeq(sentences, start + 1, end), " ")
    IN  [context |-> IF Len(context) > MAX_SNIPPET_LENGTH
                     THEN Prefix(context, MAX_SNIPPET_LENGTH) \o "..."
                     ELSE context,
         start |-> start, end |-> target_index + window_size + 1]

\* get_context_window: indices are Python's (0-based, end exclusive)
get_context_window(sentences, target_index, window_size) ==
    LET start   == Max(0, target_index - window_size)
        end     == Min(Len(sentences), target_index + window_size + 1)
        context == Join(SubSeq(sentences, start + 1, end), " ")
    IN  [context |-> IF Len(context) > MAX_SNIPPET_LENGTH
                     THEN Prefix(context, MAX_SNIPPET_LENGTH) \o "..."
                     ELSE context,
         start |-> start, end |-> end]

\* is_negative with <= for <
IsNegativeOrEqual(compound_score, threshold) == compound_score <= threshold

is_negative(compound_score, threshold) == compound_score < threshold

\* the pattern \b<keyword>\w*\b matches in `sentence` starting at position p
\* (1-based).  The keyword starts and ends with a word character, so \b
\* before it asks for a non-word character (or the start) on its left, and
\* \w*\b after it can always be satisfied.
KeywordMatchesAt(sentence, kw, p) ==
    /\ p + Len(kw) - 1 <= Len(sentence)
    /\ (p = 1 \/ ~IsWordChar(CharAt(sentence, p - 1)))
    /\ \A j \in 1..Len(kw) :
         Lower(CharAt(sentence, p + j - 1)) = Lower(CharAt(kw, j))

\* keyword_pattern.search(sentence); the empty keyword gives \b\w*\b
PatternSearch(sentence, kw) ==
    IF kw = "" THEN \E p \in 1..Len(sentence) : IsWordChar(CharAt(sentence, p))
    ELSE \E p \in 1..Len(sentence) : KeywordMatchesAt(sentence, kw, p)

\* PatternSearch on the pooled sentences and keywords, computed once
SearchTable ==
    [sk \in SentencePool \X (KeywordPool \cup {""}) |->
        PatternSearch(sk[1], sk[2])]

KeywordSearch(sentence, kw) ==
    IF <<sentence, kw>> \in DOMAIN SearchTable
    THEN SearchTable[<<sentence, kw>>]
    ELSE PatternSearch(sentence, kw)

\* find_keyword_in_sentences: the 0-based indices, ascending
RECURSIVE FindFrom(_, _, _)
FindFrom(sentences, kw, i) ==
    IF i > Len(sentences) THEN <<>>
    ELSE IF KeywordSearch(sentences[i], kw)
         THEN <<i - 1>> \o FindFrom(sentences, kw, i + 1)
         ELSE FindFrom(sentences, kw, i + 1)

find_keyword_in_sentences(sentences, kw) == FindFrom(sentences, kw, 1)

\* list.sort(key=lambda p: p.pain_score): stable, ascending
RECURSIVE InsertByScore(_, _)
InsertByScore(sorted, pp) ==
    IF sorted = <<>> THEN <<pp>>
    ELSE IF sorted[Len(sorted)].pain_score <= pp.pain_score
         THEN Append(sorted, pp)
         ELSE Append(InsertByScore(SubSeq(sorted, 1, Len(sorted) - 1), pp),
                     sorted[Len(sorted)])

RECURSIVE SortByScoreFrom(_, _)
SortByScoreFrom(pps, acc) ==
    IF pps = <<>> THEN acc
    ELSE SortByScoreFrom(Tail(pps), InsertByScore(acc, Head(pps)))

\* the sort left out
Unsorted(pps) == pps

SortByScore(pps) == SortByScoreFrom(pps, <<>>)

\* the duplicate-context test answering "not seen" always
NeverSeenContext(h, seen_contexts) == FALSE

\* context_hash in seen_contexts
ContextSeen(h, seen_contexts) == h \in seen_contexts

\* the body of `for idx in matching_indices`; acc = [pps, seen_contexts]
RECURSIVE ScanIndices(_, _, _, _, _, _)
ScanIndices(sentences, kw, idxs, acc, v, thr) ==
    IF idxs = <<>> THEN acc
    ELSE
      LET idx == Head(idxs)
          w   == get_context_window(sentences, idx, DEFAULT_WINDOW_SIZE)
          h   == StrHash(Prefix(w.context, CONTEXT_HASH_PREFIX))
      IN  IF ContextSeen(h, acc.seen_contexts)
          THEN ScanIndices(sentences, kw, Tail(idxs), acc, v, thr)
          ELSE
            LET compound == v[w.context]
                pps2 == IF is_negative(compound, thr)
                        THEN Append(acc.pps,
                                    [keyword |-> kw,
                                     context_snippet |-> w.context,
                                     pain_score |-> compound,
                                     sentence_index |-> idx])
                        ELSE acc.pps
            IN  ScanIndices(sentences, kw, Tail(idxs),
                            [pps |-> pps2,
                             seen_contexts |-> acc.seen_contexts \cup {h}],
                            v, thr)

\* extract_pain_points taking the keywords from the last to the first
KeywordOrderReversed(kws) == [i \in 1..Len(kws) |-> kws[Len(kws) + 1 - i]]

\* `for keyword in keywords`: the list as the caller gave it
KeywordOrder(kws) == kws

\* the body of `for keyword in keywords`
RECURSIVE ScanKeywords(_, _, _, _, _)
ScanKeywords(sentences, kws, acc, v, thr) ==
    IF kws = <<>> THEN acc
    ELSE ScanKeywords(sentences, Tail(kws),
                      ScanIndices(sentences, Head(kws),
                                  find_keyword_in_sentences(sentences, Head(kws)),
                                  acc, v, thr),
                      v, thr)

EmptyResult(text) ==
    [clean_text |-> text, sentences |-> <<>>, pain_points |-> <<>>,
     overall_sentiment |-> 0]

\* clean_html(text) is the tokenizer's input: its pieces joined by spaces
CleanText(toks) == Join(toks, " ")

\* extract_pain_points going on whatever the length of clean_text
NeverTooShort(clean_text) == FALSE

\* extract_pain_points: `not clean_text or len(clean_text) < MIN_SNIPPET_LENGTH`
TooShort(clean_text) ==
    clean_text = "" \/ Len(clean_text) < MIN_SNIPPET_LENGTH

\* extract_pain_points, from the cleaned and tokenised text on
extract_pain_points(toks, kws, v, thr) ==
    LET clean_text == CleanText(toks)
        sentences  == split_sentences(toks)
    IN  IF TooShort(clean_text)
        THEN EmptyResult(clean_text)
        ELSE IF sentences = <<>> THEN EmptyResult(clean_text)
        ELSE [clean_text |-> clean_text,
              sentences |-> sentences,
              pain_points |->
                  SortByScore(ScanKeywords(sentences, KeywordOrder(kws),
                                           [pps |-> <<>>, seen_contexts |-> {}],
                                           v, thr).pps),
              overall_sentiment |-> v[clean_text]]

\* the texts analyze_sentiment can be called on for this input
ScoredTexts(toks, kws) ==
    LET clean_text == CleanText(toks)
        sentences  == split_sentences(toks)
    IN  IF TooShort(clean_text) \/ sentences = <<>> THEN {}
        ELSE {clean_text} \cup
             {get_context_window(sentences, i - 1, DEFAULT_WINDOW_SIZE).context :
                i \in {j \in 1..Len(sentences) :
                         \E k \in Range(kws) : KeywordSearch(sentences[j], k)}}

NoResult == EmptyResult("")

NoWindow == [called |-> FALSE]

AnalyzerIdle ==
    /\ tokens = <<>>
    /\ keywords = <<>>
    /\ negative_threshold = NEGATIVE_THRESHOLD
    /\ vader = <<>>
    /\ apc = "input"
    /\ result = NoResult
    /\ cw = NoWindow

(***************************************************************************)
(* RSSListener.  The configuration is NumNiches niches of NumSubs          *)
(* subreddits each; a feed entry is an id, an age and a text.              *)
(***************************************************************************)
RETRY_COUNT == 3

Items == 1..NumItems

\* a post with a negative keyword context
DOC_PAIN == <<S_SHIP, S_WORSHIP>>
\* a post that mentions the keywords in a positive text
DOC_POSITIVE == <<S_WORSHIP, S_SHIP>>
\* a post without sentiment in which only "ship" begins a word
DOC_FLAT == <<S_LONG, S_WORSHIP>>
\* a post without sentiment in which "ship" occurs inside "worship" only
DOC_SUBSTRING == <<S_WORSHIP, S_WORSHIP>>
\* a post without any keyword
DOC_OFFTOPIC == <<S_FRAG>>

EntryDocs == {DOC_PAIN, DOC_POSITIVE, DOC_FLAT, DOC_SUBSTRING, DOC_OFFTOPIC}

\* the entries a feed may hold: recent ones with any of the texts, and one
\* older than 7 days (its text is never read)
Entries ==
    {[old |-> FALSE, doc |-> d] : d \in EntryDocs}
        \cup {[old |-> TRUE, doc |-> DOC_OFFTOPIC]}

\* extract_keywords_from_query(NICHES[niche]["search_query"])
NicheKeywords(n) == IF n = 1 THEN <<K_SHIP, K_LATE>> ELSE <<K_LATE, K_SHIP>>

ListenerTexts ==
    UNION {ScoredTexts(d, NicheKeywords(n)) : d \in EntryDocs, n \in 1..NumNiches}

\* what VADER gives the texts of the entries
ListenerScores ==
    [t \in ListenerTexts |->
        IF t \in ScoredTexts(DOC_PAIN, <<K_SHIP>>) THEN -50
        ELSE IF t \in ScoredTexts(DOC_POSITIVE, <<K_SHIP>>) THEN 30
        ELSE 0]

RECURSIVE LowerStr(_)
LowerStr(s) ==
    IF Len(s) = 0 THEN ""
    ELSE IF Len(s) = 1 THEN Lower(s)
    ELSE LET h == Len(s) \div 2
         IN  LowerStr(SubSeq(s, 1, h)) \o LowerStr(SubSeq(s, h + 1, Len(s)))

\* Python's `kw in text`
Contains(text, kw) ==
    \E p \in 1..(Len(text) - Len(kw) + 1) : SubSeq(text, p, p + Len(kw) - 1) = kw

\* f"{title} {raw_content}".lower() of each entry text, computed once
CombinedText == [d \in EntryDocs |-> LowerStr(CleanText(d))]

\* any(kw.lower() in combined_text for kw in keywords)
has_keyword_match(doc, kws) ==
    \E i \in 1..Len(kws) : Contains(CombinedText[doc], LowerStr(kws[i]))

\* _process_entry after mark_seen: what becomes of an unseen entry
\*   "old"         older than 7 days
\*   "no_keyword"  the pre-filter finds no keyword
\*   "pain"        analysed, has pain points: the post is returned
\*   "neutral"     analysed, no pain point, on_neutral_match is called
\*   "silent"      analysed, no pain point, no callback
FreshOutcome(doc, n) ==
    IF ~has_keyword_match(doc, NicheKeywords(n)) THEN "no_keyword"
    ELSE
      LET r     == extract_pain_points(doc, NicheKeywords(n), ListenerScores,
                                       NEGATIVE_THRESHOLD)
          first == IF NicheKeywords(n) = <<>> THEN "" ELSE NicheKeywords(n)[1]
      IN  IF r.pain_points # <<>> THEN "pain"
          ELSE IF \/ find_keyword_in_sentences(r.sentences, first) # <<>>
                  \/ r.overall_sentiment # 0
               THEN "neutral"
               ELSE "silent"

\* FreshOutcome of every entry text in every niche, computed once
OutcomeTable == [n \in 1..NumNiches |-> [d \in EntryDocs |-> FreshOutcome(d, n)]]

\* _process_entry calling on_neutral_match for a post with pain points too
NeutralCallbackAlways(outcome) == outcome \in {"pain", "neutral"}

\* _process_entry: on_neutral_match is called in the else branch of
\* `if analysis_result.has_pain_points`, for a keyword match or a sentiment
NeutralCallback(outcome) == outcome = "neutral"

\* the callbacks an entry with this outcome is given to: on_pain_point, by
\* way of pain_posts, and on_neutral_match
Callbacks(outcome) ==
    (IF outcome = "pain" THEN {"on_pain_point"} ELSE {}) \cup
    (IF NeutralCallback(outcome) THEN {"on_neutral_match"} ELSE {})

\* the counts after _process_entry(post_id) left the seen set as set: an id
\* that is not in it starts again from 0
CountCalls(g, post_id, outcome, set) ==
    [i \in DOMAIN g |->
        IF i \notin set THEN 0
        ELSE IF i = post_id THEN Min(2, g[i] + Cardinality(Callbacks(outcome)))
        ELSE g[i]]

\* _process_entry calling mark_seen after the age and keyword tests
MarkedAfterFilters == {"pain", "neutral", "silent"}

\* _process_entry: the outcomes of an unseen entry that come after the
\* mark_seen call, which precedes the age and keyword tests
MarkedOutcomes == {"old", "no_keyword", "pain", "neutral", "silent"}

EntryOutcome(old, doc, n) == IF old THEN "old" ELSE OutcomeTable[n][doc]

\* of the analysis result of an entry: the overall sentiment is not zero or
\* some keyword of the niche is found in some sentence
KeywordOrSentiment(doc, n) ==
    LET r == extract_pain_points(doc, NicheKeywords(n), ListenerScores,
                                 NEGATIVE_THRESHOLD)
    IN  \/ r.overall_sentiment # 0
        \/ \E i \in 1..Len(NicheKeywords(n)) :
              find_keyword_in_sentences(r.sentences, NicheKeywords(n)[i]) # <<>>

\* KeywordOrSentiment of every entry text in every niche, computed once
OccursTable ==
    [n \in 1..NumNiches |-> [d \in EntryDocs |-> KeywordOrSentiment(d, n)]]

\* _fetch_feed with a retry loop that never ends
NeverGivesUp(a) == FALSE

\* _fetch_feed: the failed attempt was the last one of range(retry_count)
FetchGivesUp(a) == a = RETRY_COUNT - 1

\* poll_all_niches calling on_pain_point outside any try
OnPainPointUncaught(raises) == IF raises THEN "propagates" ELSE "returns"

\* poll_all_niches: try: self.on_pain_point(post) except Exception: log
OnPainPointCall(raises) == IF raises THEN "caught" ELSE "returns"

SLEEP_CHUNK == 5

\* the sleep_time start() may draw: up to MaxSleepSteps full sleeps and a rest
SleepTimes == 0..(MaxSleepSteps * SLEEP_CHUNK + 1)

\* start() sleeping to sleep_end in one call
SleepWhole(left) == left

\* start(): time.sleep(min(5, sleep_end - time.time()))
SleepLength(left) == Min(SLEEP_CHUNK, left)

\* the handler of start() ending the run
ExceptionEndsRun(r) == "stopped"

\* start(): `except Exception as e: ...; if self._running: time.sleep(60)`,
\* then the while test again
AfterException(r) == IF r THEN "exc_sleep" ELSE "loop"

\* poll_niche going through its subreddits whatever _running is
SourceLoopIgnoresStop(s, r) == s > NumSubs

\* poll_niche: the `for subreddit in subreddits` loop is over, by exhaustion
\* or by `if not self._running: break`
SourceLoopDone(s, r) == s > NumSubs \/ ~r

\* poll_all_niches delivering the posts of a niche last first
NextPostReversed(posts, i) == posts[Len(posts) + 1 - i]

\* poll_all_niches: `for post in posts`, the i-th post
NextPost(posts, i) == posts[i]

NoEntry == [wasSeen |-> FALSE, outcome |-> "none", queued |-> FALSE,
            callback |-> "none", occurs |-> FALSE, marked |-> FALSE]

NoFetch == [sub |-> 0, outcome |-> "none", prevFailed |-> FALSE,
            slept |-> FALSE, afterSleep |-> FALSE]

\* what the seen-posts file may hold when the tracker is built: no file, a
\* file save() wrote, a file open() cannot read, text json.load rejects,
\* JSON that is not an object with a list of posts, bytes that are not text
LoadKinds == {"absent", "valid", "io_error", "bad_json", "wrong_shape",
              "not_utf8"}

\* SeenPostsTracker._load: `except (json.JSONDecodeError, IOError)` sets
\* _seen = set(); data.get on a non-dict raises AttributeError, set() of a
\* non-iterable TypeError, and the read of non-UTF-8 bytes
\* UnicodeDecodeError, none of which is caught
_load(kind, posts) ==
    CASE kind = "absent" -> [raised |-> FALSE, seen |-> {}]
      [] kind = "valid" -> [raised |-> FALSE, seen |-> posts]
      [] kind \in {"io_error", "bad_json"} -> [raised |-> FALSE, seen |-> {}]
      [] kind \in {"wrong_shape", "not_utf8"} -> [raised |-> TRUE, seen |-> {}]

ListenerRest ==
    /\ running = FALSE
    /\ niche = 1
    /\ sub = 1
    /\ attempt = 0
    /\ feedLen = 0
    /\ pos = 1
    /\ pain_posts = <<>>
    /\ met = {}
    /\ postIdx = 1
    /\ sleepLeft = 0
    /\ cycleSaved = FALSE
    /\ delivered = <<>>
    /\ cbRaised = FALSE
    /\ lastEntry = NoEntry
    /\ lastFetch = NoFetch
    /\ exc = "none"

ListenerIdle ==
    /\ ListenerRest
    /\ given = <<>>
    /\ pc = "idle"
    /\ saved = {}
    /\ load = "none"

WorkersIdle ==
    /\ wpc = <<>>
    /\ wid = <<>>

TrendIdle ==
    /\ recent_days = 0 /\ baseline_days = 0 /\ min_recent_count = 0
    /\ recent_count = 0 /\ baseline_count = 0
    /\ tpc = "idle"
    /\ trending = <<>>

SeverityIdle ==
    /\ pain_score = 0
    /\ tier = ""

(***************************************************************************)
(* SpecTracker: one tracker, any sequence of calls                         *)
(***************************************************************************)
InitTracker ==
    /\ which \in {"seen", "cache"}
    /\ seen = {}
    /\ insOrder = <<>>
    /\ max_size \in 1..MaxMaxSize
    /\ cache = <<>>
    /\ cache_max \in 1..MaxMaxSize
    /\ cooldown \in 0..MaxCooldown
    /\ now = 0
    /\ lastOp = NoOp
    /\ (which = "seen") => (cache_max = 1 /\ cooldown = 0)
    /\ (which = "cache") => (max_size = 1)
    /\ AnalyzerIdle
    /\ ListenerIdle
    /\ WorkersIdle
    /\ TrendIdle
    /\ SeverityIdle

NextTracker ==
    \/ \E id \in Ids : MarkSeen(id)
    \/ \E id \in Ids : IsSeen(id)
    \/ \E id \in Ids : CacheMarkSeen(id)
    \/ \E id \in Ids : CacheIsSeen(id)
    \/ Tick

SpecTracker == InitTracker /\ [][NextTracker]_vars

(***************************************************************************)
(* C1. Capacity: whatever the sequence of mark_seen calls, neither tracker *)
(* ever stores more than max_size identifiers.                             *)
(***************************************************************************)
C1_Capacity ==
    /\ count(seen) <= max_size
    /\ size(cache) <= cache_max

\* a full tracker has taken one more identifier and evicted for it
C1_Witness ==
    \/ which = "seen" /\ lastOp.op = "mark" /\ lastOp.evicted # {}
                      /\ count(seen) = max_size
    \/ which = "cache" /\ lastOp.op = "mark" /\ lastOp.evicted # {}
                       /\ size(cache) = cache_max

(***************************************************************************)
(* C2. When mark_seen on the capacity-bounded tracker overflows max_size,  *)
(* the identifiers evicted are the oldest by insertion order, and the      *)
(* identifier just inserted is still in the set (with max_size = 3, after  *)
(* marking 1, 2, 3, 4: count 3, 1 gone, 4 present).                        *)
(***************************************************************************)
C2_EvictsOldest ==
    (which = "seen" /\ lastOp.op = "mark") =>
        /\ lastOp.evicted = lastOp.oldest
        /\ is_seen(seen, lastOp.id)
        /\ count(seen) <= max_size

(***************************************************************************)
(* C4. Idempotence: a second mark_seen(id) right after a first one leaves  *)
(* count() / size() unchanged and is_seen(id) true.                        *)
(***************************************************************************)
C4_MarkTwice ==
    [][ ( /\ lastOp.op = "mark"
          /\ lastOp'.op = "mark"
          /\ lastOp'.id = lastOp.id
          /\ lastOp'.flip # lastOp.flip )
        => ( /\ count(seen') = count(seen)
             /\ size(cache') = size(cache)
             /\ lastOp'.res ) ]_vars

(***************************************************************************)
(* SpecAnalyzer: one analysis of one text                                  *)
(***************************************************************************)
SeqsUpTo(S, n) == UNION {[1..m -> S] : m \in 0..n}

InitAnalyzer ==
    /\ which = "analyzer"
    /\ seen = {} /\ insOrder = <<>> /\ max_size = 1
    /\ cache = <<>> /\ cache_max = 1 /\ cooldown = 0 /\ now = 0
    /\ lastOp = NoOp
    /\ tokens \in SeqsUpTo(SentencePool, MaxTokens)
    /\ keywords \in SeqsUpTo(KeywordPool, MaxKeywords)
    /\ negative_threshold \in Thresholds
    /\ vader = <<>>
    /\ apc = "input"
    /\ result = NoResult
    /\ cw = NoWindow
    /\ ListenerIdle
    /\ WorkersIdle
    /\ TrendIdle
    /\ SeverityIdle

\* analyze_post / extract_pain_points on the text
Analyze ==
    /\ apc = "input"
    /\ apc' = "done"
    /\ \E v \in [ScoredTexts(tokens, keywords) -> CompoundValues] :
         /\ vader' = v
         /\ result' = extract_pain_points(tokens, keywords, v,
                                          negative_threshold)
    /\ UNCHANGED <<tokens, keywords, negative_threshold, cw>>
    /\ UNCHANGED <<trackerVars, listenerVars, workerVars, trendVars,
                 severityVars>>

\* get_context_window on the text's sentences
GetContextWindow(target_index, window_size) ==
    /\ apc = "input"
    /\ target_index < Len(split_sentences(tokens))
    /\ apc' = "window"
    /\ cw' = [called |-> TRUE, index |-> target_index, radius |-> window_size,
              n |-> Len(split_sentences(tokens)),
              ret |-> get_context_window(split_sentences(tokens),
                                         target_index, window_size)]
    /\ UNCHANGED <<tokens, keywords, negative_threshold, vader, result>>
    /\ UNCHANGED <<trackerVars, listenerVars, workerVars, trendVars,
                 severityVars>>

NextAnalyzer ==
    \/ Analyze
    \/ \E i \in 0..(MaxTokens - 1), r \in 0..MaxRadius : GetContextWindow(i, r)

SpecAnalyzer == InitAnalyzer /\ [][NextAnalyzer]_vars

\* the 0-based indices of the sentences some keyword of the call matches
MatchedIndices ==
    {i \in 0..(Len(result.sentences) - 1) :
        \E k \in Range(keywords) : KeywordSearch(result.sentences[i + 1], k)}

WindowText(i) ==
    get_context_window(result.sentences, i, DEFAULT_WINDOW_SIZE).context

PainPointsAt(prefix) ==
    {n \in 1..Len(result.pain_points) :
        Prefix(result.pain_points[n].context_snippet, CONTEXT_HASH_PREFIX)
            = prefix}

(***************************************************************************)
(* C5. Every PainPoint of a returned AnalysisResult has a pain_score       *)
(* strictly below the analyzer's negative threshold, and a matched context *)
(* window that scores at or above the threshold yields no PainPoint.       *)
(***************************************************************************)
C5_BelowThreshold ==
    apc = "done" =>
        /\ \A n \in 1..Len(result.pain_points) :
             result.pain_points[n].pain_score < negative_threshold
        /\ \A i \in MatchedIndices :
             vader[WindowText(i)] >= negative_threshold =>
                 \A n \in 1..Len(result.pain_points) :
                     result.pain_points[n].context_snippet # WindowText(i)

\* one matched window scored exactly the threshold and was dropped, another
\* scored below it and was kept
C5_Witness ==
    /\ apc = "done"
    /\ result.pain_points # <<>>
    /\ \E i \in MatchedIndices :
         /\ vader[WindowText(i)] = negative_threshold
         /\ PainPointsAt(Prefix(WindowText(i), CONTEXT_HASH_PREFIX)) = {}

(***************************************************************************)
(* C6. The pain_points of every AnalysisResult are sorted ascending by     *)
(* pain_score: each one scores no more than the next.                      *)
(***************************************************************************)
C6_Sorted ==
    apc = "done" =>
        \A n \in 1..(Len(result.pain_points) - 1) :
            result.pain_points[n].pain_score
                <= result.pain_points[n + 1].pain_score

\* with one keyword the matches are found by ascending sentence index: here
\* the more negative one was found later and stands first
C6_Witness ==
    /\ apc = "done"
    /\ Len(keywords) = 1
    /\ Len(result.pain_points) >= 2
    /\ result.pain_points[1].pain_score < result.pain_points[2].pain_score
    /\ result.pain_points[1].sentence_index
           > result.pain_points[2].sentence_index

(***************************************************************************)
(* C7. Within one analysis no two PainPoints have the same first 100       *)
(* characters of context snippet, whatever the keyword list.               *)
(***************************************************************************)
C7_DistinctPrefixes ==
    apc = "done" =>
        \A n, m \in 1..Len(result.pain_points) :
            n # m =>
                Prefix(result.pain_points[n].context_snippet,
                       CONTEXT_HASH_PREFIX)
                    # Prefix(result.pain_points[m].context_snippet,
                             CONTEXT_HASH_PREFIX)

\* two different windows, both negative, begin with the same 100 characters
\* and one PainPoint stands for them
C7_Witness ==
    /\ apc = "done"
    /\ \E i, j \in MatchedIndices :
         /\ WindowText(i) # WindowText(j)
         /\ Prefix(WindowText(i), CONTEXT_HASH_PREFIX)
                = Prefix(WindowText(j), CONTEXT_HASH_PREFIX)
         /\ vader[WindowText(i)] < negative_threshold
         /\ vader[WindowText(j)] < negative_threshold
         /\ Cardinality(PainPointsAt(Prefix(WindowText(i),
                                            CONTEXT_HASH_PREFIX))) = 1

(***************************************************************************)
(* C8. For an index inside the sentence list and a radius >= 0,            *)
(* get_context_window returns start = max(0, index - radius) and           *)
(* end = min(len, index + radius + 1), so 0 <= start <= index <= end <=    *)
(* len; and every PainPoint's sentence_index is an index of the result's   *)
(* sentences.                                                              *)
(***************************************************************************)
C8_WindowInRange ==
    /\ cw.called =>
         /\ 0 <= cw.ret.start
         /\ cw.ret.start <= cw.index
         /\ cw.index < cw.ret.end
         /\ cw.ret.end <= cw.n
         /\ cw.ret.start >= cw.index - cw.radius
         /\ cw.ret.start = 0 \/ cw.ret.start = cw.index - cw.radius
         /\ cw.ret.end <= cw.index + cw.radius + 1
         /\ cw.ret.end = cw.n \/ cw.ret.end = cw.index + cw.radius + 1
    /\ apc = "done" =>
         \A n \in 1..Len(result.pain_points) :
             /\ 0 <= result.pain_points[n].sentence_index
             /\ result.pain_points[n].sentence_index < Len(result.sentences)

\* a window cut at both ends of the list
C8_Witness ==
    /\ cw.called
    /\ cw.index - cw.radius < 0
    /\ cw.index + cw.radius + 1 > cw.n
    /\ cw.ret.start = 0
    /\ cw.ret.end = cw.n


(***************************************************************************)
(* Spec: RSSListener.start, one step of the polling thread at a time; the  *)
(* signal handler's stop() may run between any two steps.                  *)
(***************************************************************************)
Init ==
    /\ which = "listener"
    /\ insOrder = <<>>
    /\ max_size \in {1, NumItems}
    /\ cache = <<>> /\ cache_max = 1 /\ cooldown = 0 /\ now = 0
    /\ lastOp = NoOp
    /\ AnalyzerIdle
    /\ load \in LoadKinds
    /\ saved \in SUBSET Items
    /\ Cardinality(saved) <= max_size
    /\ (load # "valid") => (saved = {})
    /\ seen = _load(load, saved).seen
    /\ pc = IF _load(load, saved).raised THEN "crashed" ELSE "idle"
    /\ ListenerRest
    /\ given = [i \in Items |-> 0]
    /\ WorkersIdle
    /\ TrendIdle
    /\ SeverityIdle

\* start(): self._running = True
Start ==
    /\ pc = "idle"
    /\ running' = TRUE
    /\ load' = "none"
    /\ pc' = "loop"
    /\ UNCHANGED <<niche, sub, attempt, feedLen, pos, pain_posts, met, postIdx,
                   sleepLeft, saved, cycleSaved, delivered, cbRaised, lastEntry,
                   lastFetch, exc, given>>
    /\ UNCHANGED <<trackerVars, analyzerVars, workerVars, trendVars,
                   severityVars>>

\* stop(), called by the signal handler between two steps of start():
\* clear the flag, then save(), whose IOError is logged
Stop(ok) ==
    /\ pc \notin {"idle", "stopped"}
    /\ running
    /\ running' = FALSE
    /\ saved' = IF ok THEN seen ELSE saved
    /\ UNCHANGED <<pc, niche, sub, attempt, feedLen, pos, pain_posts, met,
                   postIdx, sleepLeft, cycleSaved, delivered, cbRaised,
                   lastEntry, lastFetch, exc, given, load>>
    /\ UNCHANGED <<trackerVars, analyzerVars, workerVars, trendVars,
                   severityVars>>

\* start(): `while self._running:`; a true test enters poll_all_niches
LoopCheck ==
    /\ pc = "loop"
    /\ IF running
       THEN /\ niche' = 1
            /\ cycleSaved' = FALSE
            /\ cbRaised' = FALSE
            /\ lastEntry' = NoEntry
            /\ lastFetch' = NoFetch
            /\ exc' = "none"
            /\ pc' = "niche_top"
       ELSE /\ pc' = "stopped"
            /\ UNCHANGED <<niche, cycleSaved, cbRaised, lastEntry, lastFetch,
                           exc>>
    /\ UNCHANGED <<running, sub, attempt, feedLen, pos, pain_posts, met,
                   postIdx, sleepLeft, saved, delivered, given, load>>
    /\ UNCHANGED <<trackerVars, analyzerVars, workerVars, trendVars,
                   severityVars>>

\* poll_all_niches: `for niche_name in NICHES.keys(): if not self._running:
\* break`; otherwise poll_niche begins with pain_posts = []
NicheTop ==
    /\ pc = "niche_top"
    /\ IF niche > NumNiches \/ ~running
       THEN /\ pc' = "save"
            /\ UNCHANGED sub
       ELSE /\ sub' = 1
            /\ pc' = "sub_top"
    /\ UNCHANGED <<running, niche, attempt, feedLen, pos, pain_posts, met,
                   postIdx, sleepLeft, saved, cycleSaved, delivered, cbRaised,
                   lastEntry, lastFetch, exc, given, load>>
    /\ UNCHANGED <<trackerVars, analyzerVars, workerVars, trendVars,
                   severityVars>>

\* poll_niche: `for subreddit in subreddits: if not self._running: break`;
\* otherwise _fetch_feed begins; after the loop poll_niche returns pain_posts
SubTop ==
    /\ pc = "sub_top"
    /\ IF SourceLoopDone(sub, running)
       THEN /\ postIdx' = 1
            /\ lastFetch' = NoFetch
            /\ met' = {}
            /\ pc' = "deliver"
       ELSE /\ lastFetch' = [sub |-> sub, outcome |-> "pending",
                             prevFailed |-> lastFetch.outcome = "failed",
                             slept |-> FALSE,
                             afterSleep |-> lastFetch.slept]
            /\ pc' = "fetch"
            /\ UNCHANGED <<postIdx, met>>
    /\ attempt' = 0
    /\ UNCHANGED <<running, niche, sub, feedLen, pos, pain_posts, sleepLeft,
                   saved, cycleSaved, delivered, cbRaised, lastEntry, exc, given,
                   load>>
    /\ UNCHANGED <<trackerVars, analyzerVars, workerVars, trendVars,
                   severityVars>>

\* _fetch_feed: the attempt succeeds and the feed has n entries; an empty
\* feed makes poll_niche `continue`
FetchOk(n) ==
    /\ pc = "fetch"
    /\ n <= Cardinality(Items \ met)
    /\ IF n = 0
       THEN /\ sub' = sub + 1
            /\ pc' = "sub_top"
            /\ UNCHANGED <<feedLen, pos>>
       ELSE /\ feedLen' = n
            /\ pos' = 1
            /\ pc' = "entry"
            /\ UNCHANGED sub
    /\ attempt' = 0
    /\ lastFetch' = [sub |-> sub,
                     outcome |-> IF n = 0 THEN "empty" ELSE "entries",
                     prevFailed |-> FALSE, slept |-> FALSE,
                     afterSleep |-> FALSE]
    /\ UNCHANGED <<running, niche, pain_posts, met, postIdx, sleepLeft, saved,
                   cycleSaved, delivered, cbRaised, lastEntry, exc, given, load>>
    /\ UNCHANGED <<trackerVars, analyzerVars, workerVars, trendVars,
                   severityVars>>

\* _fetch_feed: the attempt raises RequestException; after the last one of
\* range(retry_count) the loop ends, _fetch_feed returns None and poll_niche
\* `continue`s
FetchFail ==
    /\ pc = "fetch"
    /\ IF FetchGivesUp(attempt)
       THEN /\ sub' = sub + 1
            /\ pc' = "sub_top"
            /\ lastFetch' = [sub |-> sub, outcome |-> "failed",
                             prevFailed |-> FALSE, slept |-> FALSE,
                             afterSleep |-> FALSE]
            /\ UNCHANGED attempt
       ELSE /\ attempt' = attempt + 1
            /\ UNCHANGED <<sub, pc, lastFetch>>
    /\ UNCHANGED <<running, niche, feedLen, pos, pain_posts, met, postIdx,
                   sleepLeft, saved, cycleSaved, delivered, cbRaised, lastEntry,
                   exc, given, load>>
    /\ UNCHANGED <<trackerVars, analyzerVars, workerVars, trendVars,
                   severityVars>>

\* poll_niche: `for entry in feed.entries: post = self._process_entry(...)`,
\* one entry; the feed may hold any id poll_niche has not met, any age and
\* any text, and
\* on_neutral_match, when called, may raise, which nothing below start()
\* catches
ProcessEntry(post_id, old, doc) ==
    /\ pc = "entry"
    /\ post_id \notin met
    /\ LET wasSeen == post_id \in seen
           outcome == IF is_seen(seen, post_id) THEN "seen"
                      ELSE EntryOutcome(old, doc, niche)
       IN
       \E raises \in IF outcome = "neutral" THEN BOOLEAN ELSE {FALSE} :
           /\ IF outcome \in MarkedOutcomes
              THEN seen' \in MarkSeenOutcomes(seen, post_id, max_size)
              ELSE UNCHANGED seen
           /\ lastEntry' = [wasSeen |-> wasSeen, outcome |-> outcome,
                            queued |-> outcome = "pain",
                            callback |-> IF NeutralCallback(outcome)
                                         THEN "on_neutral_match" ELSE "none",
                            occurs |-> /\ outcome \in {"pain", "neutral",
                                                       "silent"}
                                       /\ OccursTable[niche][doc],
                            marked |-> post_id \in seen']
           /\ given' = CountCalls(given, post_id, outcome, seen')
           /\ IF raises
              THEN /\ pc' = "except"
                   /\ exc' = "on_neutral_match"
                   /\ pain_posts' = <<>>
                   /\ met' = {}
                   /\ pos' = 1
              ELSE /\ pos' = IF pos = feedLen THEN 1 ELSE pos + 1
                   /\ pc' = IF pos = feedLen THEN "after_entries" ELSE "entry"
                   /\ pain_posts' = IF outcome = "pain"
                                    THEN Append(pain_posts, post_id)
                                    ELSE pain_posts
                   /\ met' = met \cup {post_id}
                   /\ UNCHANGED exc
    /\ UNCHANGED <<running, niche, sub, attempt, feedLen, postIdx, sleepLeft,
                   saved, cycleSaved, delivered, cbRaised, lastFetch, load>>
    /\ UNCHANGED <<which, max_size, insOrder, cache, cache_max, cooldown, now,
                   lastOp>>
    /\ UNCHANGED <<analyzerVars, workerVars, trendVars,
                   severityVars>>

\* poll_niche: `if self._running and subreddit != subreddits[-1]:`
AfterEntries ==
    /\ pc = "after_entries"
    /\ IF running /\ sub # NumSubs
       THEN pc' = "polite_sleep" /\ UNCHANGED sub
       ELSE pc' = "sub_top" /\ sub' = sub + 1
    /\ lastEntry' = NoEntry
    /\ UNCHANGED <<running, niche, attempt, feedLen, pos, pain_posts, met,
                   postIdx, sleepLeft, saved, cycleSaved, delivered, cbRaised,
                   lastFetch, exc, given, load>>
    /\ UNCHANGED <<trackerVars, analyzerVars, workerVars, trendVars,
                   severityVars>>

\* poll_niche: time.sleep(random.uniform(1, 3)) returns
PoliteSleep ==
    /\ pc = "polite_sleep"
    /\ sub' = sub + 1
    /\ lastFetch' = [lastFetch EXCEPT !.slept = TRUE]
    /\ pc' = "sub_top"
    /\ UNCHANGED <<running, niche, attempt, feedLen, pos, pain_posts, met,
                   postIdx, sleepLeft, saved, cycleSaved, delivered, cbRaised,
                   lastEntry, exc, given, load>>
    /\ UNCHANGED <<trackerVars, analyzerVars, workerVars, trendVars,
                   severityVars>>

\* poll_all_niches: `for post in posts: try: self.on_pain_point(post)
\* except Exception`, one post; the callback may raise
DeliverPost(raises) ==
    /\ pc = "deliver"
    /\ postIdx <= Len(pain_posts)
    /\ delivered' = Append(delivered, NextPost(pain_posts, postIdx))
    /\ cbRaised' = (cbRaised \/ (/\ raises
                                  /\ postIdx < Len(pain_posts)
                                  /\ niche < NumNiches))
    /\ IF OnPainPointCall(raises) = "propagates"
       THEN /\ pc' = "except"
            /\ exc' = "on_pain_point"
            /\ UNCHANGED postIdx
       ELSE /\ postIdx' = postIdx + 1
            /\ UNCHANGED <<pc, exc>>
    /\ UNCHANGED <<running, niche, sub, attempt, feedLen, pos, pain_posts, met,
                   sleepLeft, saved, cycleSaved, lastEntry, lastFetch, given,
                   load>>
    /\ UNCHANGED <<trackerVars, analyzerVars, workerVars, trendVars,
                   severityVars>>

\* poll_all_niches, `for post in posts` is exhausted:
\* `if self._running and niche_name != list(NICHES.keys())[-1]:`
AfterDeliver ==
    /\ pc = "deliver"
    /\ postIdx > Len(pain_posts)
    /\ IF running /\ niche # NumNiches
       THEN pc' = "jitter_sleep" /\ UNCHANGED niche
       ELSE pc' = "niche_top" /\ niche' = niche + 1
    /\ pain_posts' = <<>>
    /\ delivered' = <<>>
    /\ postIdx' = 1
    /\ UNCHANGED <<running, sub, attempt, feedLen, pos, met, sleepLeft, saved,
                   cycleSaved, cbRaised, lastEntry, lastFetch, exc, given, load>>
    /\ UNCHANGED <<trackerVars, analyzerVars, workerVars, trendVars,
                   severityVars>>

\* poll_all_niches: time.sleep(jitter) returns
JitterSleep ==
    /\ pc = "jitter_sleep"
    /\ niche' = niche + 1
    /\ pc' = "niche_top"
    /\ UNCHANGED <<running, sub, attempt, feedLen, pos, pain_posts, met,
                   postIdx, sleepLeft, saved, cycleSaved, delivered, cbRaised,
                   lastEntry, lastFetch, exc, given, load>>
    /\ UNCHANGED <<trackerVars, analyzerVars, workerVars, trendVars,
                   severityVars>>

\* poll_all_niches: self.seen_tracker.save(); an IOError is logged by save()
Save(ok) ==
    /\ pc = "save"
    /\ saved' = IF ok THEN seen ELSE saved
    /\ cycleSaved' = TRUE
    /\ pc' = "after_cycle"
    /\ UNCHANGED <<running, niche, sub, attempt, feedLen, pos, pain_posts, met,
                   postIdx, sleepLeft, delivered, cbRaised, lastEntry, lastFetch,
                   exc, given, load>>
    /\ UNCHANGED <<trackerVars, analyzerVars, workerVars, trendVars,
                   severityVars>>

\* start(): `if not self._running: break`, else draw sleep_time
AfterCycle ==
    /\ pc = "after_cycle"
    /\ IF ~running
       THEN pc' = "stopped" /\ UNCHANGED sleepLeft
       ELSE pc' = "sleep" /\ sleepLeft' \in SleepTimes
    /\ UNCHANGED <<running, niche, sub, attempt, feedLen, pos, pain_posts, met,
                   postIdx, saved, cycleSaved, delivered, cbRaised, lastEntry,
                   lastFetch, exc, given, load>>
    /\ UNCHANGED <<trackerVars, analyzerVars, workerVars, trendVars,
                   severityVars>>

\* start(): `while self._running and time.time() < sleep_end:
\* time.sleep(min(5, ...))`, one sleep or the end of the loop
SleepStep ==
    /\ pc = "sleep"
    /\ IF running /\ sleepLeft > 0
       THEN sleepLeft' = sleepLeft - SleepLength(sleepLeft) /\ UNCHANGED pc
       ELSE pc' = "loop" /\ sleepLeft' = 0
    /\ UNCHANGED <<running, niche, sub, attempt, feedLen, pos, pain_posts, met,
                   postIdx, saved, cycleSaved, delivered, cbRaised, lastEntry,
                   lastFetch, exc, given, load>>
    /\ UNCHANGED <<trackerVars, analyzerVars, workerVars, trendVars,
                   severityVars>>

\* start(): `except Exception as e: logger.exception(...);
\* if self._running: time.sleep(60)`
Except ==
    /\ pc = "except"
    /\ pc' = AfterException(running)
    /\ UNCHANGED <<running, niche, sub, attempt, feedLen, pos, pain_posts, met,
                   postIdx, sleepLeft, saved, cycleSaved, delivered, cbRaised,
                   lastEntry, lastFetch, exc, given, load>>
    /\ UNCHANGED <<trackerVars, analyzerVars, workerVars, trendVars,
                   severityVars>>

\* start(): time.sleep(60) returns
ExcSleep ==
    /\ pc = "exc_sleep"
    /\ pc' = "loop"
    /\ UNCHANGED <<running, niche, sub, attempt, feedLen, pos, pain_posts, met,
                   postIdx, sleepLeft, saved, cycleSaved, delivered, cbRaised,
                   lastEntry, lastFetch, exc, given, load>>
    /\ UNCHANGED <<trackerVars, analyzerVars, workerVars, trendVars,
                   severityVars>>

Next ==
    \/ Start
    \/ \E ok \in BOOLEAN : Stop(ok)
    \/ LoopCheck
    \/ NicheTop
    \/ SubTop
    \/ \E n \in 0..MaxFeedLen : FetchOk(n)
    \/ FetchFail
    \/ \E post_id \in Items, e \in Entries :
          ProcessEntry(post_id, e.old, e.doc)
    \/ AfterEntries
    \/ PoliteSleep
    \/ \E raises \in BOOLEAN : DeliverPost(raises)
    \/ AfterDeliver
    \/ JitterSleep
    \/ \E ok \in BOOLEAN : Save(ok)
    \/ AfterCycle
    \/ SleepStep
    \/ Except
    \/ ExcSleep

Spec == Init /\ [][Next]_vars

(***************************************************************************)
(* SpecWorkers: threads that call _process_entry on one RSSListener, hence *)
(* on one SeenPostsTracker.  A thread may be preempted between any two     *)
(* calls; the tracker takes no lock.  The tracker is large enough never to *)
(* evict, so an id that was marked stays in it.                            *)
(***************************************************************************)
Workers == 1..NumWorkers

InitWorkers ==
    /\ which = "workers"
    /\ seen = {} /\ insOrder = <<>>
    /\ max_size = NumIds
    /\ cache = <<>> /\ cache_max = 1 /\ cooldown = 0 /\ now = 0
    /\ lastOp = NoOp
    /\ AnalyzerIdle
    /\ ListenerIdle
    /\ TrendIdle
    /\ SeverityIdle
    /\ wpc = [w \in Workers |-> "idle"]
    /\ wid = [w \in Workers |-> 0]

\* _process_entry: `if self.seen_tracker.is_seen(post_id): return None`
WorkerIsSeen(w, post_id) ==
    /\ which = "workers"
    /\ wpc[w] = "idle"
    /\ IF is_seen(seen, post_id)
       THEN UNCHANGED <<wpc, wid>>
       ELSE /\ wpc' = [wpc EXCEPT ![w] = "checked"]
            /\ wid' = [wid EXCEPT ![w] = post_id]
    /\ UNCHANGED <<trackerVars, analyzerVars, listenerVars, trendVars,
                 severityVars>>

\* _process_entry: self.seen_tracker.mark_seen(post_id); the thread goes on
\* to the analysis of the entry
WorkerMarkSeen(w) ==
    /\ which = "workers"
    /\ wpc[w] = "checked"
    /\ seen' \in MarkSeenOutcomes(seen, wid[w], max_size)
    /\ wpc' = [wpc EXCEPT ![w] = "analyzing"]
    /\ UNCHANGED wid
    /\ UNCHANGED <<which, max_size, insOrder, cache, cache_max, cooldown, now,
                   lastOp>>
    /\ UNCHANGED <<analyzerVars, listenerVars, trendVars,
                 severityVars>>

\* _process_entry returns the post or None
WorkerReturn(w) ==
    /\ which = "workers"
    /\ wpc[w] = "analyzing"
    /\ wpc' = [wpc EXCEPT ![w] = "idle"]
    /\ wid' = [wid EXCEPT ![w] = 0]
    /\ UNCHANGED <<trackerVars, analyzerVars, listenerVars, trendVars,
                 severityVars>>

NextWorkers ==
    \/ \E w \in Workers, post_id \in Ids : WorkerIsSeen(w, post_id)
    \/ \E w \in Workers : WorkerMarkSeen(w)
    \/ \E w \in Workers : WorkerReturn(w)

SpecWorkers == InitWorkers /\ [][NextWorkers]_vars

(***************************************************************************)
(* SpecTrend: PostStorage.get_trending_keywords for one keyword.  The two  *)
(* COUNT queries give recent_count and baseline_count; the averages and *)
(* the score are Python floats, modelled as fractions [n, d] with d > 0    *)
(* and rounded to hundredths as round(x, 2) does.                          *)
(***************************************************************************)
MaxCount == 10
MaxDays == 7
MaxMinRecent == 2

NEW_KEYWORD_BONUS == 10

Frac(n, d) == [n |-> n, d |-> d]

\* a / b for fractions a >= 0 and b > 0
FracDiv(a, b) == Frac(a.n * b.d, a.d * b.n)

\* round(x, 2) in hundredths: the nearest hundredth; when x lies halfway
\* between two hundredths the float divisions decide which one is returned
Round2(x) ==
    LET h == 100 * x.n
        lo == h \div x.d
        r2 == 2 * (h % x.d)
    IN  IF r2 < x.d THEN {lo}
        ELSE IF r2 > x.d THEN {lo + 1}
        ELSE {lo, lo + 1}

\* get_trending_keywords measuring the baseline over all of baseline_days
BaselineWholeWindow(b_days, r_days) == b_days

\* baseline_period = baseline_days - recent_days
BaselinePeriod(b_days, r_days) == b_days - r_days

\* baseline_avg = baseline_count / baseline_period if baseline_period > 0 else 0
BaselineAvg(b_count, b_days, r_days) ==
    IF BaselinePeriod(b_days, r_days) > 0
    THEN Frac(b_count, BaselinePeriod(b_days, r_days))
    ELSE Frac(0, 1)

\* recent_avg = recent_count / recent_days
RecentAvg(r_count, r_days) == Frac(r_count, r_days)

\* trend_score, before rounding
TrendScore(r_count, r_days, b_count, b_days) ==
    LET baseline_avg == BaselineAvg(b_count, b_days, r_days)
        recent_avg == RecentAvg(r_count, r_days)
    IN  IF baseline_avg.n > 0
        THEN FracDiv(recent_avg, baseline_avg)
        ELSE Frac(recent_avg.n * NEW_KEYWORD_BONUS, recent_avg.d)

\* the lists get_trending_keywords may return: the keyword is in
\* recent_counts when its count passes HAVING recent_count >= ?
TrendingOutcomes(r_count, r_days, b_count, b_days, min_count) ==
    IF r_count < min_count THEN {<<>>}
    ELSE {<<[recent_count |-> r_count, baseline_avg |-> ba, trend_score |-> ts]>> :
            <<ba, ts>> \in Round2(BaselineAvg(b_count, b_days, r_days))
                \X Round2(TrendScore(r_count, r_days, b_count, b_days))}

\* the baseline query selects captured_at in [baseline_cutoff, recent_cutoff):
\* no row when baseline_days <= recent_days
InitTrend ==
    /\ which = "trend"
    /\ seen = {} /\ insOrder = <<>> /\ max_size = 1
    /\ cache = <<>> /\ cache_max = 1 /\ cooldown = 0 /\ now = 0
    /\ lastOp = NoOp
    /\ AnalyzerIdle
    /\ ListenerIdle
    /\ WorkersIdle
    /\ SeverityIdle
    /\ recent_days \in 1..MaxDays
    /\ baseline_days \in 1..MaxDays
    /\ min_recent_count \in 1..MaxMinRecent
    /\ recent_count \in 0..MaxCount
    /\ baseline_count \in 0..MaxCount
    /\ (baseline_days <= recent_days) => (baseline_count = 0)
    /\ tpc = "input"
    /\ trending = <<>>

\* storage.get_trending_keywords(recent_days, baseline_days, min_recent_count)
GetTrendingKeywords ==
    /\ which = "trend"
    /\ tpc = "input"
    /\ trending' \in TrendingOutcomes(recent_count, recent_days, baseline_count,
                                      baseline_days, min_recent_count)
    /\ tpc' = "done"
    /\ UNCHANGED <<recent_days, baseline_days, min_recent_count, recent_count,
                   baseline_count>>
    /\ UNCHANGED <<trackerVars, analyzerVars, listenerVars, workerVars,
                   severityVars>>

NextTrend ==
    GetTrendingKeywords

SpecTrend == InitTrend /\ [][NextTrend]_vars

(***************************************************************************)
(* SpecSeverity: PainPoint.severity of a PainPoint with any compound score *)
(* VADER can give: -1.0 to 1.0, in hundredths.                             *)
(***************************************************************************)
MaxScore == 100

InitSeverity ==
    /\ which = "severity"
    /\ seen = {} /\ insOrder = <<>> /\ max_size = 1
    /\ cache = <<>> /\ cache_max = 1 /\ cooldown = 0 /\ now = 0
    /\ lastOp = NoOp
    /\ AnalyzerIdle
    /\ ListenerIdle
    /\ WorkersIdle
    /\ TrendIdle
    /\ pain_score \in -MaxScore..MaxScore
    /\ tier = ""

\* pain_point.severity
Severity ==
    /\ which = "severity"
    /\ tier = ""
    /\ tier' = severity(pain_score)
    /\ UNCHANGED pain_score
    /\ UNCHANGED <<trackerVars, analyzerVars, listenerVars, workerVars,
                   trendVars>>

NextSeverity ==
    Severity

SpecSeverity == InitSeverity /\ [][NextSeverity]_vars

(***************************************************************************)
(* C3: an entry whose id is in the seen set when _process_entry meets it   *)
(* is not reprocessed: it is not analysed, it is not appended to           *)
(* pain_posts (so on_pain_point never gets it) and on_neutral_match is not *)
(* called with it.  An id evicted earlier is no longer in the set and is   *)
(* outside this statement.                                                 *)
(***************************************************************************)
C3_SeenNotReprocessed ==
    lastEntry.wasSeen =>
        /\ lastEntry.outcome = "seen"
        /\ ~lastEntry.queued
        /\ lastEntry.callback = "none"

\* a cycle after one that saved a non-empty set meets an id it has seen
C3_Witness ==
    /\ running
    /\ saved # {}
    /\ lastEntry.wasSeen
    /\ lastEntry.outcome = "seen"

(***************************************************************************)
(* C9: _fetch_feed makes at most RETRY_COUNT = 3 attempts for one source;  *)
(* when the last one fails the fetch has failed, nothing is raised, and    *)
(* poll_niche stands at the top of its loop with the next source of the    *)
(* same niche.                                                             *)
(***************************************************************************)
C9_FetchGivesUpAfterThree ==
    /\ pc = "fetch" => attempt < RETRY_COUNT
    /\ lastFetch.outcome = "failed" =>
          /\ attempt = RETRY_COUNT - 1
          /\ pc = "sub_top"
          /\ sub = lastFetch.sub + 1
          /\ exc = "none"
    /\ lastFetch.prevFailed => (pc = "fetch" /\ sub = lastFetch.sub)

\* the source before this one failed three times and this one is being fetched
C9_Witness ==
    /\ pc = "fetch"
    /\ lastFetch.prevFailed
    /\ sub = 2

(***************************************************************************)
(* C10: an exception of on_pain_point never reaches start(): the posts of  *)
(* the niche are delivered one after the other whatever the earlier calls  *)
(* did, a listener that is still running polls every niche of the cycle,   *)
(* and the cycle ends in save().                                           *)
(***************************************************************************)
C10_CallbackErrorContained ==
    /\ exc # "on_pain_point"
    /\ pc = "deliver" => delivered = SubSeq(pain_posts, 1, postIdx - 1)
    /\ (cbRaised /\ running /\ pc = "save") => niche = NumNiches + 1
    /\ (cbRaised /\ pc \in {"after_cycle", "sleep"}) => cycleSaved

\* on_pain_point raised with posts and niches left, and the cycle was
\* completed and saved
C10_Witness ==
    /\ pc = "after_cycle"
    /\ running
    /\ cbRaised
    /\ cycleSaved
    /\ niche = NumNiches + 1

(***************************************************************************)
(* C11: an exception of on_neutral_match is caught where the callback is   *)
(* called and never reaches the handler of start().                        *)
(***************************************************************************)
C11_NeutralErrorContained ==
    exc # "on_neutral_match"

(***************************************************************************)
(* C12: start() is left only when the running flag is cleared, which only  *)
(* stop() does; after an exception of a cycle the thread goes back to the  *)
(* test of the while loop.                                                 *)
(***************************************************************************)
C12_OnlyStopEndsLoop ==
    /\ pc = "stopped" => ~running
    /\ exc # "none" => pc \in {"except", "exc_sleep", "loop", "stopped"}

\* an exception ended a cycle, the listener is still running and stands at
\* the test of the while loop
C12_Witness ==
    /\ pc = "loop"
    /\ running
    /\ exc # "none"

(***************************************************************************)
(* C13: once the running flag is cleared no fetch of a further source      *)
(* begins and no further niche is polled.                                  *)
(***************************************************************************)
C13_NoNewSourceAfterStop ==
    [][~running =>
          /\ ~(pc # "fetch" /\ pc' = "fetch")
          /\ ~(pc = "niche_top" /\ pc' = "sub_top")]_vars

\* the flag is cleared while sources of the niche are left
C13_Witness ==
    /\ ~running
    /\ pc = "sub_top"
    /\ sub > 1
    /\ sub <= NumSubs

(***************************************************************************)
(* C14: once the running flag is cleared _fetch_feed starts no further     *)
(* attempt for the source it is fetching.                                  *)
(***************************************************************************)
C14_NoRetryAfterStop ==
    [][(~running /\ pc = "fetch") => attempt' # attempt + 1]_vars

(***************************************************************************)
(* C15: every poll cycle that was started has ended with save() when the   *)
(* thread is back in start(), before the next cycle or the end of the run. *)
(***************************************************************************)
C15_CycleEndsWithSave ==
    (/\ pc \in {"except", "exc_sleep", "loop", "stopped"}
     /\ (cycleSaved \/ exc # "none"))
    => cycleSaved

(***************************************************************************)
(* C16: for an entry that was analysed and has no pain point,              *)
(* on_neutral_match is called exactly when the overall sentiment is not    *)
(* zero or some keyword of the niche, whichever its place in the list,     *)
(* occurs in a sentence of the entry.                                      *)
(***************************************************************************)
C16_NeutralOnAnyKeyword ==
    lastEntry.outcome \in {"neutral", "silent"} =>
        (lastEntry.callback = "on_neutral_match" <=> lastEntry.occurs)

C18_OneWorkerPerId ==
    \A w1, w2 \in DOMAIN wpc :
        (w1 # w2 /\ wpc[w1] = "analyzing" /\ wpc[w2] = "analyzing")
            => wid[w1] # wid[w2]

(***************************************************************************)
(* C19: PostCache.is_seen(id) returns True only for an id in the cache     *)
(* whose mark is at most cooldown old; for an id whose mark is older it    *)
(* returns False and removes that entry, and otherwise it leaves the cache *)
(* as it was.                                                              *)
(***************************************************************************)
C19_CooldownPolicy ==
    [][(which = "cache" /\ lastOp' # lastOp /\ lastOp'.op = "is_seen") =>
         LET id      == lastOp'.id
             marked  == id \in CacheIds(cache)
             age     == now - cache[CacheIndex(cache, id)].t
             expired == marked /\ age > cooldown
         IN  /\ lastOp'.res => (marked /\ age <= cooldown)
             /\ expired => /\ ~lastOp'.res
                           /\ cache' = SelectSeq(cache, LAMBDA e : e.id # id)
             /\ ~expired => cache' = cache]_vars

\* a lookup found an expired entry beside a live one and removed it
C19_Witness ==
    /\ which = "cache"
    /\ lastOp.op = "is_seen"
    /\ ~lastOp.res
    /\ lastOp.evicted = {lastOp.id}
    /\ cache # <<>>

(***************************************************************************)
(* C20: PostCache.mark_seen keeps the cache within max_size by evicting    *)
(* the entries whose last mark_seen is the oldest: no entry it evicts was  *)
(* marked later than an entry it keeps, and the id just marked stays, as   *)
(* the most recent entry with the current time.                            *)
(***************************************************************************)
C20_EvictsLeastRecentlyMarked ==
    [][(which = "cache" /\ lastOp' # lastOp /\ lastOp'.op = "mark") =>
         LET id      == lastOp'.id
             evicted == CacheIds(cache) \ CacheIds(cache')
             kept    == CacheIds(cache') \ {id}
             T(x)    == cache[CacheIndex(cache, x)].t
         IN  /\ Len(cache') <= cache_max
             /\ cache' # <<>>
             /\ cache'[Len(cache')] = [id |-> id, t |-> now]
             /\ \A e \in evicted, r \in kept : r \in CacheIds(cache) /\ T(e) <= T(r)
             /\ evicted # {} => Len(cache') = cache_max]_vars

\* a full cache of at least two entries evicted one for a new id
C20_Witness ==
    /\ which = "cache"
    /\ lastOp.op = "mark"
    /\ lastOp.evicted # {}
    /\ Len(cache) = cache_max
    /\ cache_max >= 2

C22_TrendScore ==
    (tpc = "done" /\ Len(trending) > 0) =>
        LET ts == trending[1].trend_score
            period == baseline_days - recent_days
        IN  /\ Len(trending) = 1
            /\ IF period > 0 /\ baseline_count > 0
               THEN LET num == 100 * recent_count * period
                        den == recent_days * baseline_count
                    IN  /\ 2 * (num - ts * den) <= den
                        /\ 2 * (ts * den - num) <= den
               ELSE LET num == 100 * recent_count * 10
                        den == recent_days
                    IN  /\ 2 * (num - ts * den) <= den
                        /\ 2 * (ts * den - num) <= den
            /\ (/\ recent_count = 10 /\ recent_days = 1
                /\ baseline_count = 7 /\ baseline_days = 7) => ts = 857

C22_Witness ==
    /\ tpc = "done"
    /\ recent_count = 10 /\ recent_days = 1
    /\ baseline_count = 7 /\ baseline_days = 7
    /\ Len(trending) = 1
    /\ trending[1].trend_score = 857

\* C23: a pain point with pain_score <= -0.5 is SEVERE, one with
\* -0.5 < pain_score <= -0.25 is MODERATE and every other one is MILD, so
\* each pain point has exactly one of the three tiers.
C23_SeverityTiers ==
    (tier # "") =>
        /\ tier \in {"SEVERE", "MODERATE", "MILD"}
        /\ (tier = "SEVERE") <=> (pain_score <= -50)
        /\ (tier = "MODERATE") <=> (-50 < pain_score /\ pain_score <= -25)
        /\ (tier = "MILD") <=> (-25 < pain_score)

C23_Witness ==
    /\ pain_score = -25
    /\ tier = "MODERATE"

\* C24: a failure to load the seen-posts file (a file that cannot be read or
\* whose content is malformed) is never fatal: the tracker is built with an
\* empty set and the listener is ready to start; and no save() failure ends
\* the run either.
C24_PersistenceNeverFatal ==
    /\ pc # "crashed"
    /\ (load \in {"io_error", "bad_json", "wrong_shape", "not_utf8"}) =>
           (seen = {} /\ pc = "idle")

\* C25: the analysis of a text whose cleaned form is empty or shorter than
\* 20 characters, or none of whose pieces is kept as a sentence, returns a
\* result with no sentence, no pain point and overall sentiment 0.
C25_EmptyInput ==
    (/\ apc = "done"
     /\ \/ Len(CleanText(tokens)) < 20
        \/ \A i \in 1..Len(tokens) : Len(Strip(tokens[i])) <= 10) =>
        /\ result.sentences = <<>>
        /\ result.pain_points = <<>>
        /\ result.overall_sentiment = 0

C25_Witness ==
    /\ apc = "done"
    /\ tokens = <<S_SHIP>>
    /\ K_SHIP \in Range(keywords)
    /\ result.sentences = <<>>

\* C26: an unseen entry is marked seen before its age and its keywords are
\* tested: an entry older than 7 days, or one whose title and content hold
\* no keyword of the niche, is not queued for on_pain_point and is not given
\* to on_neutral_match, and its id is in the seen set after the call unless
\* the full set evicted it; an entry whose id is in the set is skipped.
C26_MarkedBeforeFilters ==
    /\ (lastEntry.outcome \in {"old", "no_keyword"}) =>
           /\ ~lastEntry.wasSeen
           /\ ~lastEntry.queued
           /\ lastEntry.callback = "none"
           /\ lastEntry.marked \/ Cardinality(seen) = max_size
           /\ pc # "except"
    /\ (lastEntry.outcome = "seen") <=> lastEntry.wasSeen

C26_Witness ==
    /\ lastEntry.outcome = "no_keyword"
    /\ lastEntry.marked
    /\ Cardinality(seen) < max_size

\* C27: within one niche every fetch but the first comes after a politeness
\* sleep that followed the fetch of the source before it, whether that fetch
\* returned entries, an empty feed or nothing after its retries; the last
\* source of a niche is not followed by a sleep.
C27_SleepBetweenSources ==
    /\ (pc = "fetch" /\ sub > 1) => lastFetch.afterSleep
    /\ lastFetch.slept => lastFetch.sub < NumSubs

\* C28: every post poll_niche has put in pain_posts is given to
\* on_pain_point before its cycle ends: pain_posts is emptied only once each
\* of its posts has been delivered, also when stop() comes later in the
\* niche or a later entry of the niche raises.
C28_PainPostsDelivered ==
    [][(pain_posts # <<>> /\ pain_posts' = <<>>) => delivered = pain_posts]_vars

\* C29: while an id stays in the seen set it is given to a callback at most
\* once, over all cycles, sources and niches: it is put in pain_posts for
\* on_pain_point or passed to on_neutral_match, never both and never twice,
\* and every post of pain_posts is passed to on_pain_point once.
C29_AtMostOnce ==
    /\ \A i \in DOMAIN given : given[i] <= 1
    /\ ~(lastEntry.queued /\ lastEntry.callback # "none")
    /\ pc = "deliver" => Len(delivered) = postIdx - 1

\* an id that was given to a callback is met again in a later cycle
C29_Witness ==
    /\ \E i \in DOMAIN given : given[i] = 1 /\ i \in seen
    /\ lastEntry.wasSeen
    /\ max_size = NumItems
    /\ load = "none"

\* C30: the keywords are scanned in the order the caller gave them and a
\* context window is scored at most once in a call: a PainPoint carries the
\* first keyword, in that order, one of whose matching sentences has this
\* window (the same first 100 characters of context), and the first such
\* sentence of that keyword; a window whose score is not negative gives no
\* PainPoint, whichever keyword leads to it.
C30_FirstKeywordWins ==
    (apc = "done") =>
        LET sentences == split_sentences(tokens)
            Ctx(idx) == get_context_window(sentences, idx,
                                           DEFAULT_WINDOW_SIZE).context
            Same(c, d) == Prefix(c, CONTEXT_HASH_PREFIX)
                              = Prefix(d, CONTEXT_HASH_PREFIX)
            Leads(j, c) ==
                {idx \in Range(find_keyword_in_sentences(sentences, keywords[j])) :
                    Same(Ctx(idx), c)}
        IN  \A n \in 1..Len(result.pain_points) :
              LET p == result.pain_points[n]
              IN  /\ vader[p.context_snippet] < negative_threshold
                  /\ \E j \in 1..Len(keywords) :
                       /\ keywords[j] = p.keyword
                       /\ p.sentence_index \in Leads(j, p.context_snippet)
                       /\ \A idx \in Leads(j, p.context_snippet) :
                             p.sentence_index <= idx
                       /\ \A j2 \in 1..(j - 1) :
                             Leads(j2, p.context_snippet) = {}

\* two different keywords lead to one negative window, which gives one
\* PainPoint, with the first of them
C30_Witness ==
    /\ apc = "done"
    /\ Len(keywords) = 2
    /\ keywords[1] # keywords[2]
    /\ \E n \in 1..Len(result.pain_points) :
         LET p == result.pain_points[n]
             sentences == split_sentences(tokens)
         IN  /\ p.keyword = keywords[1]
             /\ \E idx \in Range(find_keyword_in_sentences(sentences,
                                                          keywords[2])) :
                   get_context_window(sentences, idx,
                                      DEFAULT_WINDOW_SIZE).context
                       = p.context_snippet

=============================================================================
